---- MODULE Spec2Model ----
(***************************************************************************)
(* A model of gtfs_code.py: the GTFS table check, the calendar resolver    *)
(* (get_services), the trip selector (get_trips), the time codec           *)
(* (seconds_after_midnight), the interstop timer (interstop_time) and the  *)
(* row retention of get_interstop_speed.                                   *)
(*                                                                         *)
(* Every function of the file is a function of its arguments (the feed is  *)
(* passed in as the dictionary gtfs), so the state is the call in progress *)
(* and what it gave back; get_interstop_speed is followed in two steps,    *)
(* and locals holds its frames between them.  Text that the code parses (dates, times, stop   *)
(* sequences) is a sequence of one-character strings, and a file name a    *)
(* sequence of words and dots, parsed here as the code parses them.  Dates *)
(* are read under the default format '%Y%m%d'.                             *)
(***************************************************************************)
EXTENDS Integers, Sequences, FiniteSets, TLC

VARIABLES call, ret, locals

vars == <<call, ret, locals>>

\* No call made yet.
Idle == [fn |-> "none"]

NoRet == [kind |-> "none"]

\* The frames a running call holds, and the line it has reached; line 0 when
\* the model follows no call through its body.
NoLocals == [line |-> 0]

Init ==
    /\ call = Idle
    /\ ret = NoRet
    /\ locals = NoLocals

Return(v) == [kind |-> "return", value |-> v]

\* An exception leaving a function: its class and the table names its message lists.
Raise(exc, listed) == [kind |-> "raise", exc |-> exc, listed |-> listed]

(***************************************************************************)
(* Sequences and text                                                      *)
(***************************************************************************)

Range(s) == {s[i] : i \in 1..Len(s)}

\* The tables (sequences of rows) of at most n rows drawn from rows.
TablesUpTo(rows, n) == UNION {[1..k -> rows] : k \in 0..n}

DigitChars == <<"0", "1", "2", "3", "4", "5", "6", "7", "8", "9">>

IsDigit(c) == \E i \in 1..10 : DigitChars[i] = c

DigitVal(c) == (CHOOSE i \in 1..10 : DigitChars[i] = c) - 1

AllDigits(s) == \A i \in 1..Len(s) : IsDigit(s[i])

RECURSIVE DecimalValue(_)
\* The value of a run of decimal digits (leading zeros allowed).
DecimalValue(s) ==
    IF Len(s) = 0 THEN 0
    ELSE 10 * DecimalValue(SubSeq(s, 1, Len(s) - 1)) + DigitVal(s[Len(s)])

\* Python's int(text) on the texts of the model: an optional sign, then digits.
IsIntLiteral(s) ==
    /\ Len(s) >= 1
    /\ IF s[1] \in {"-", "+"}
       THEN Len(s) >= 2 /\ AllDigits(Tail(s))
       ELSE AllDigits(s)

IntOf(s) ==
    IF s[1] = "-" THEN 0 - DecimalValue(Tail(s))
    ELSE IF s[1] = "+" THEN DecimalValue(Tail(s))
    ELSE DecimalValue(s)

RECURSIVE SplitAcc(_, _, _)
SplitAcc(s, sep, cur) ==
    IF Len(s) = 0 THEN <<cur>>
    ELSE IF s[1] = sep THEN <<cur>> \o SplitAcc(Tail(s), sep, <<>>)
    ELSE SplitAcc(Tail(s), sep, Append(cur, s[1]))

\* str.split(sep): the pieces between the separators, empty pieces kept.
Split(s, sep) == SplitAcc(s, sep, <<>>)

(***************************************************************************)
(* seconds_after_midnight                                                  *)
(***************************************************************************)

\* The weights of the dot product: np.array([3600,60,1]).
Weights == <<3600, 60, 1>>

\* The same product reduced to one day: what the codec must not do.
dot_wrapped(row, w) == (row[1] * w[1] + row[2] * w[2] + row[3] * w[3]) % 86400

\* One row of hour_array.dot(w), for a row of three integers.
dot(row, w) == row[1] * w[1] + row[2] * w[2] + row[3] * w[3]

\* np.char.split(hour, ':'), one list of pieces per row.
char_split(hour) == [i \in 1..Len(hour) |-> Split(hour[i], ":")]

\* np.array(list(...)).astype(int).dot(...) needs a rectangular array of
\* integer literals with three columns; an empty list makes a 1-d array of
\* length 0, which the dot product rejects as well.  Each failure is a ValueError.
seconds_after_midnight(hour) ==
    LET parts == char_split(hour)
        rectangular == \A i, j \in 1..Len(parts) : Len(parts[i]) = Len(parts[j])
        integers == \A i \in 1..Len(parts) :
                        \A k \in 1..Len(parts[i]) : IsIntLiteral(parts[i][k])
        hour_array == [i \in 1..Len(parts) |->
                          [k \in 1..Len(parts[i]) |-> IntOf(parts[i][k])]]
    IN  IF Len(hour) = 0 \/ ~rectangular \/ ~integers \/ Len(parts[1]) # 3
        THEN Raise("ValueError", {})
        ELSE Return([i \in 1..Len(hour_array) |-> dot(hour_array[i], Weights)])

\* Rows of the arrays handed to the codec.
MaxRows == 3

T_25_10_00 == <<"2", "5", ":", "1", "0", ":", "0", "0">>
T_08_05_03 == <<"0", "8", ":", "0", "5", ":", "0", "3">>
T_00_00_59 == <<"0", "0", ":", "0", "0", ":", "5", "9">>
T_08_05 == <<"0", "8", ":", "0", "5">>
T_08_05_03_00 == <<"0", "8", ":", "0", "5", ":", "0", "3", ":", "0", "0">>
T_aa_05_03 == <<"a", "a", ":", "0", "5", ":", "0", "3">>
T_neg1_05_03 == <<"-", "1", ":", "0", "5", ":", "0", "3">>
T_08_neg5_03 == <<"0", "8", ":", "-", "5", ":", "0", "3">>

TimeStrings ==
    {T_25_10_00, T_08_05_03, T_00_00_59, T_08_05, T_08_05_03_00, T_aa_05_03,
     T_neg1_05_03, T_08_neg5_03}

CallSecondsAfterMidnight ==
    /\ call = Idle
    /\ \E hour \in TablesUpTo(TimeStrings, MaxRows) :
          /\ call' = [fn |-> "seconds_after_midnight", hour |-> hour]
          /\ ret' = seconds_after_midnight(hour)
          /\ UNCHANGED locals

NextTime == CallSecondsAfterMidnight

SpecTime == Init /\ [][NextTime]_vars

\* "HH:MM:SS" with two digits in each place.
CanonicalTime(s) ==
    /\ Len(s) = 8
    /\ s[3] = ":" /\ s[6] = ":"
    /\ \A i \in {1, 2, 4, 5, 7, 8} : IsDigit(s[i])

TwoDigits(s, i) == 10 * DigitVal(s[i]) + DigitVal(s[i + 1])

\* C4: for an array of well-formed times, each row's result is
\* 3600*HH + 60*MM + SS of that row alone, never reduced modulo 86400
\* ("25:10:00" gives 90600, "08:05:03" gives 29103).
C4_SecondsExact ==
    (/\ call.fn = "seconds_after_midnight"
     /\ Len(call.hour) >= 1
     /\ \A i \in 1..Len(call.hour) : CanonicalTime(call.hour[i]))
    => /\ ret.kind = "return"
       /\ Len(ret.value) = Len(call.hour)
       /\ \A i \in 1..Len(call.hour) :
             LET s == call.hour[i]
             IN  /\ ret.value[i] = 3600 * TwoDigits(s, 1) + 60 * TwoDigits(s, 4)
                                      + TwoDigits(s, 7)
                 /\ (s = T_25_10_00 => ret.value[i] = 90600)
                 /\ (s = T_08_05_03 => ret.value[i] = 29103)
                 /\ (TwoDigits(s, 1) >= 24 => ret.value[i] >= 86400)

\* A time past midnight converted next to an ordinary one, in either order.
C4_Witness ==
    /\ call.fn = "seconds_after_midnight"
    /\ Len(call.hour) >= 2
    /\ T_25_10_00 \in Range(call.hour)
    /\ T_08_05_03 \in Range(call.hour)
    /\ ret.kind = "return"
    /\ 90600 \in Range(ret.value)

\* Not three integer components, or a negative one, read off the text itself.
MalformedTime(s) ==
    \/ Cardinality({i \in 1..Len(s) : s[i] = ":"}) # 2
    \/ \E i \in 1..Len(s) : ~IsDigit(s[i]) /\ s[i] # ":"

\* C8: an input holding a time that does not split into exactly three integer
\* components, or that has a negative component, makes the codec fail and
\* return no number.
C8_MalformedFails ==
    (/\ call.fn = "seconds_after_midnight"
     /\ \E i \in 1..Len(call.hour) : MalformedTime(call.hour[i]))
    => ret.kind = "raise"

(***************************************************************************)
(* Dates: datetime.strptime / strftime under '%Y%m%d', weekday()           *)
(***************************************************************************)

IsLeap(y) == y % 4 = 0 /\ (y % 100 # 0 \/ y % 400 = 0)

DaysInMonth(y, m) ==
    IF m = 2 THEN (IF IsLeap(y) THEN 29 ELSE 28)
    ELSE IF m \in {4, 6, 9, 11} THEN 30 ELSE 31

RECURSIVE DaysBeforeMonth(_, _)
DaysBeforeMonth(y, m) ==
    IF m = 1 THEN 0 ELSE DaysBeforeMonth(y, m - 1) + DaysInMonth(y, m - 1)

DaysBeforeYear(y) ==
    (y - 1) * 365 + ((y - 1) \div 4) - ((y - 1) \div 100) + ((y - 1) \div 400)

\* datetime.toordinal(): 1 for 0001-01-01.
ToOrdinal(d) == DaysBeforeYear(d.y) + DaysBeforeMonth(d.y, d.m) + d.d

\* datetime.weekday(): 0 for Monday.
Weekday(d) == (ToOrdinal(d) + 6) % 7

NoDate == [ok |-> FALSE]

\* %m at position p taking n characters: 1[0-2] | 0[1-9] | [1-9].
MonthAt(s, p, n) ==
    /\ p + n - 1 <= Len(s)
    /\ AllDigits(SubSeq(s, p, p + n - 1))
    /\ IF n = 2 THEN DecimalValue(SubSeq(s, p, p + 1)) \in 1..12
       ELSE DigitVal(s[p]) \in 1..9

\* %d at position p taking n characters: 3[01] | [12]\d | 0[1-9] | [1-9].
DayAt(s, p, n) ==
    /\ p + n - 1 <= Len(s)
    /\ AllDigits(SubSeq(s, p, p + n - 1))
    /\ IF n = 2 THEN DecimalValue(SubSeq(s, p, p + 1)) \in 1..31
       ELSE DigitVal(s[p]) \in 1..9

\* The widths the pattern's alternatives take, in the order the regular
\* expression tries them (two characters before one).
FieldWidths == <<<<2, 2>>, <<2, 1>>, <<1, 2>>, <<1, 1>>>>

\* dt.strptime(date, '%Y%m%d'): four digits of year, then the first pair of
\* month and day alternatives that match; text left over, or a day the month
\* does not have, is a ValueError (NoDate).
strptime(s) ==
    IF ~(Len(s) >= 4 /\ AllDigits(SubSeq(s, 1, 4))) THEN NoDate
    ELSE LET fits == {i \in 1..4 : /\ MonthAt(s, 5, FieldWidths[i][1])
                                   /\ DayAt(s, 5 + FieldWidths[i][1], FieldWidths[i][2])}
         IN  IF fits = {} THEN NoDate
             ELSE LET i == CHOOSE k \in fits : \A j \in fits : k <= j
                      ml == FieldWidths[i][1]
                      dl == FieldWidths[i][2]
                      y == DecimalValue(SubSeq(s, 1, 4))
                      m == DecimalValue(SubSeq(s, 5, 4 + ml))
                      d == DecimalValue(SubSeq(s, 5 + ml, 4 + ml + dl))
                  IN  IF 4 + ml + dl # Len(s) \/ y < 1 \/ d > DaysInMonth(y, m)
                      THEN NoDate
                      ELSE [ok |-> TRUE, y |-> y, m |-> m, d |-> d]

RECURSIVE ZeroPad(_, _)
\* n written in decimal on exactly width characters.
ZeroPad(n, width) ==
    IF width = 0 THEN <<>>
    ELSE Append(ZeroPad(n \div 10, width - 1), DigitChars[(n % 10) + 1])

\* strftime('%Y%m%d') for the years of the model (1000 and later).
strftime(d) == ZeroPad(d.y, 4) \o ZeroPad(d.m, 2) \o ZeroPad(d.d, 2)

\* vali_date(date, '%Y%m%d'): the text must parse and format back unchanged.
vali_date(date) ==
    LET parsed == strptime(date)
    IN  IF ~parsed.ok THEN FALSE ELSE date = strftime(parsed)

(***************************************************************************)
(* get_services                                                            *)
(***************************************************************************)

dow_dict == <<"monday", "tuesday", "wednesday", "thursday", "friday", "saturday", "sunday">>

\* pd.to_datetime on the feed's YYYYMMDD texts, as a day number.
to_datetime(s) == ToOrdinal(strptime(s))

\* A range that leaves out its two end days.
conditions_exclusive(row, dt_date, dow) ==
    /\ to_datetime(row.start_date) < dt_date
    /\ to_datetime(row.end_date) > dt_date
    /\ row[dow] = "1"

\* The row filter of the weekly rules; dt_date is the date asked about as a
\* day number, as to_datetime gives the row's dates.
conditions(row, dt_date, dow) ==
    /\ to_datetime(row.start_date) <= dt_date
    /\ to_datetime(row.end_date) >= dt_date
    /\ row[dow] = "1"

RECURSIVE Column(_, _)
\* table[col].values
Column(table, col) ==
    IF Len(table) = 0 THEN <<>> ELSE <<table[1][col]>> \o Column(Tail(table), col)

\* Additions first, removals last: a removed service stays out.
apply_exceptions_remove_last(services, to_remove, to_add) ==
    (services \cup to_add) \ to_remove

\* set(services) - set(to_remove) | set(to_add): '-' binds tighter than '|'.
apply_exceptions(services, to_remove, to_add) ==
    (services \ to_remove) \cup to_add

\* The arrays a set can be listed as: np.array(list(set)) has no fixed order.
Listings(S) ==
    {a \in [1..Cardinality(S) -> S] : \A i, j \in 1..Cardinality(S) : a[i] = a[j] => i = j}

\* Every outcome of get_services(gtfs, date): one, unless exceptions apply and
\* the result is listed from a set.
get_services(gtfs, date) ==
    IF ~vali_date(date) THEN {Raise("ValueError", {})}
    ELSE LET dt_date == strptime(date)
             dow == dow_dict[Weekday(dt_date) + 1]
             calendar == gtfs.calendar
             day == ToOrdinal(dt_date)
             active(row) == conditions(row, day, dow)
             services == Column(SelectSeq(calendar, active), "service_id")
         IN  IF "calendar_dates" \notin DOMAIN gtfs THEN {Return(services)}
             ELSE LET on_date(row) == row.date = strftime(dt_date)
                      exceptions == SelectSeq(gtfs.calendar_dates, on_date)
                      added(row) == row.exception_type = "1"
                      removed(row) == row.exception_type = "2"
                      to_add == Column(SelectSeq(exceptions, added), "service_id")
                      to_remove == Column(SelectSeq(exceptions, removed), "service_id")
                  IN  IF Len(exceptions) > 0
                      THEN {Return(a) : a \in Listings(apply_exceptions(
                                Range(services), Range(to_remove), Range(to_add)))}
                      ELSE {Return(services)}

D_20230605 == <<"2", "0", "2", "3", "0", "6", "0", "5">>
D_20230606 == <<"2", "0", "2", "3", "0", "6", "0", "6">>
D_20230610 == <<"2", "0", "2", "3", "0", "6", "1", "0">>
D_2023065 == <<"2", "0", "2", "3", "0", "6", "5">>
D_20230631 == <<"2", "0", "2", "3", "0", "6", "3", "1">>

\* The dates asked about: a Monday, a Tuesday, a Saturday, and two texts that
\* are no canonical date.
QueryDates == {D_20230605, D_20230606, D_20230610, D_2023065, D_20230631}

ServiceIds == {"S1", "S2"}

WeekdaysOnly ==
    [monday |-> "1", tuesday |-> "1", wednesday |-> "1", thursday |-> "1",
     friday |-> "1", saturday |-> "0", sunday |-> "0"]

WeekendOnly ==
    [monday |-> "0", tuesday |-> "0", wednesday |-> "0", thursday |-> "0",
     friday |-> "0", saturday |-> "1", sunday |-> "1"]

CalendarRow(sid, flags, start, end) ==
    [service_id |-> sid, monday |-> flags.monday, tuesday |-> flags.tuesday,
     wednesday |-> flags.wednesday, thursday |-> flags.thursday,
     friday |-> flags.friday, saturday |-> flags.saturday, sunday |-> flags.sunday,
     start_date |-> start, end_date |-> end]

\* Rows of calendar.txt: a weekday service over each of two date ranges whose
\* end days are dates asked about, and a weekend service over the second.
CalendarRows ==
    {CalendarRow(sid, p[1], p[2], p[3]) :
        sid \in ServiceIds,
        p \in {<<WeekdaysOnly, D_20230605, D_20230606>>,
               <<WeekdaysOnly, D_20230606, D_20230610>>,
               <<WeekendOnly, D_20230606, D_20230610>>}}

\* Rows of calendar_dates.txt.
ExceptionRows ==
    [service_id : ServiceIds, date : {D_20230606}, exception_type : {"1", "2"}]

\* Rows of calendar.txt and of calendar_dates.txt in a feed.
MaxCalendar == 2
MaxExceptions == 2

\* The feed get_services is asked about: calendar_dates.txt is optional.
ServiceFeed(calendar, has_dates, calendar_dates) ==
    IF has_dates THEN [calendar |-> calendar, calendar_dates |-> calendar_dates]
    ELSE [calendar |-> calendar]

ExceptionTables(has_dates) ==
    IF has_dates THEN TablesUpTo(ExceptionRows, MaxExceptions) ELSE {<<>>}

CallGetServices ==
    /\ call = Idle
    /\ \E c \in TablesUpTo(CalendarRows, MaxCalendar), has_dates \in BOOLEAN :
          \E e \in ExceptionTables(has_dates), date \in QueryDates :
             /\ call' = [fn |-> "get_services",
                         gtfs |-> ServiceFeed(c, has_dates, e), date |-> date]
             /\ ret' \in get_services(ServiceFeed(c, has_dates, e), date)
             /\ UNCHANGED locals

NextServices == CallGetServices

SpecServices == Init /\ [][NextServices]_vars

\* The claims' reading of the dates of the model, apart from the parser:
\* the texts are YYYYMMDD, so they order as numbers, and the calendar of
\* June 2023 gives the weekdays.
CanonicalQuery(date) == date \in {D_20230605, D_20230606, D_20230610}

WeekdayOf(date) ==
    IF date = D_20230605 THEN "monday"
    ELSE IF date = D_20230606 THEN "tuesday" ELSE "saturday"

\* Base of the claims: the services active on the date by the weekly rules.
Base(calendar, date) ==
    {calendar[i].service_id : i \in
        {k \in 1..Len(calendar) :
            /\ DecimalValue(calendar[k].start_date) <= DecimalValue(date)
            /\ DecimalValue(date) <= DecimalValue(calendar[k].end_date)
            /\ calendar[k][WeekdayOf(date)] = "1"}}

ExceptionsOn(gtfs, date, type) ==
    IF "calendar_dates" \notin DOMAIN gtfs THEN {}
    ELSE {gtfs.calendar_dates[i].service_id : i \in
            {k \in 1..Len(gtfs.calendar_dates) :
                /\ gtfs.calendar_dates[k].date = date
                /\ gtfs.calendar_dates[k].exception_type = type}}

HasExceptionsOn(gtfs, date) ==
    /\ "calendar_dates" \in DOMAIN gtfs
    /\ \E k \in 1..Len(gtfs.calendar_dates) : gtfs.calendar_dates[k].date = date

\* C1: on a valid date with at least one calendar_dates row, the result is
\* exactly (Base \ REMOVED) \cup ADDED: removed and not added is out, removed
\* and added is in.
C1_ExceptionsApplied ==
    (/\ call.fn = "get_services"
     /\ CanonicalQuery(call.date)
     /\ HasExceptionsOn(call.gtfs, call.date))
    => /\ ret.kind = "return"
       /\ \A s \in ServiceIds :
             s \in Range(ret.value) <=>
                \/ s \in ExceptionsOn(call.gtfs, call.date, "1")
                \/ /\ s \in Base(call.gtfs.calendar, call.date)
                   /\ s \notin ExceptionsOn(call.gtfs, call.date, "2")

\* Two services in the base set, one of them both removed and added on the
\* date: both are in the result.
C1_Witness ==
    /\ call.fn = "get_services"
    /\ call.date = D_20230606
    /\ "calendar_dates" \in DOMAIN call.gtfs
    /\ Base(call.gtfs.calendar, call.date) = {"S1", "S2"}
    /\ ExceptionsOn(call.gtfs, call.date, "2") = {"S1"}
    /\ ExceptionsOn(call.gtfs, call.date, "1") = {"S1"}
    /\ ret.kind = "return"
    /\ Range(ret.value) = {"S1", "S2"}

\* C2: on a valid date with no calendar_dates table, or no row for the date,
\* the result is exactly the base set (both ends of the range included), and
\* an empty result is returned, not raised.
C2_BaseOnly ==
    (/\ call.fn = "get_services"
     /\ CanonicalQuery(call.date)
     /\ ~HasExceptionsOn(call.gtfs, call.date))
    => /\ ret.kind = "return"
       /\ Range(ret.value) = Base(call.gtfs.calendar, call.date)

\* A service whose range ends on the date asked about, and a table of
\* exceptions that has rows, none for the date.
C2_Witness ==
    /\ call.fn = "get_services"
    /\ call.date = D_20230610
    /\ "calendar_dates" \in DOMAIN call.gtfs
    /\ Len(call.gtfs.calendar_dates) > 0
    /\ ~HasExceptionsOn(call.gtfs, call.date)
    /\ \E k \in 1..Len(call.gtfs.calendar) : call.gtfs.calendar[k].end_date = call.date
    /\ ret.kind = "return"
    /\ ret.value = <<"S1">>

(***************************************************************************)
(* get_trips                                                               *)
(***************************************************************************)

\* The columns of trips.txt; iterating a DataFrame yields these names.
TripColumns == {"trip_id", "route_id", "service_id", "shape_id"}

\* No branch on the filter's length: an empty filter keeps no trip.
route_filter_always(trips, routes) ==
    LET in_routes(row) == row.route_id \in Range(routes)
    IN  SelectSeq(trips, in_routes)

\* if routes.shape[0]>0: trips[trips.route_id.isin(routes)], else trips as is.
route_filter(trips, routes) ==
    LET in_routes(row) == row.route_id \in Range(routes)
    IN  IF Len(routes) > 0 THEN SelectSeq(trips, in_routes) ELSE trips

\* Every outcome of get_trips(gtfs, date, routes=routes): the filtered trips
\* table itself (a DataFrame, not an array of trip ids); an invalid date's
\* ValueError passes through.
get_trips(gtfs, date, routes) ==
    {IF services.kind = "raise" THEN services
     ELSE LET in_services(row) == row.service_id \in Range(services.value)
          IN  Return(route_filter(SelectSeq(gtfs.trips, in_services), routes))
     : services \in get_services(gtfs, date)}

RouteIds == {"R1", "R2"}

TripRows ==
    [trip_id : {"T1", "T2"}, route_id : RouteIds, service_id : ServiceIds,
     shape_id : {"SH1"}]

\* Rows of trips.txt in a feed.
MaxTrips == 2

\* Route filters: none, one route, both.
RouteFilters == {<<>>, <<"R1">>, <<"R2">>, <<"R1", "R2">>}

\* The calendars of the feeds whose trips are selected: a weekday service, and
\* the same with a weekend service beside it.
TripCalendars ==
    {<<CalendarRow("S1", WeekdaysOnly, D_20230606, D_20230610)>>,
     <<CalendarRow("S1", WeekdaysOnly, D_20230606, D_20230610),
       CalendarRow("S2", WeekendOnly, D_20230606, D_20230610)>>}

\* Their calendar_dates.txt when there is one: on 6 June S1 is removed and S2 added.
TripExceptions ==
    <<[service_id |-> "S1", date |-> D_20230606, exception_type |-> "2"],
      [service_id |-> "S2", date |-> D_20230606, exception_type |-> "1"]>>

TripDates == {D_20230606, D_20230610, D_2023065}

TripFeed(calendar, has_dates, trips) ==
    IF has_dates
    THEN [calendar |-> calendar, calendar_dates |-> TripExceptions, trips |-> trips]
    ELSE [calendar |-> calendar, trips |-> trips]

CallGetTrips ==
    /\ call = Idle
    /\ \E c \in TripCalendars, has_dates \in BOOLEAN, date \in TripDates :
          \E trips \in TablesUpTo(TripRows, MaxTrips), routes \in RouteFilters :
             /\ call' = [fn |-> "get_trips", gtfs |-> TripFeed(c, has_dates, trips),
                         date |-> date, routes |-> routes]
             /\ ret' \in get_trips(TripFeed(c, has_dates, trips), date, routes)
             /\ UNCHANGED locals

NextTrips == CallGetTrips

SpecTrips == Init /\ [][NextTrips]_vars

\* The services the claims take as resolved for the date.
Resolved(gtfs, date) ==
    IF HasExceptionsOn(gtfs, date)
    THEN (Base(gtfs.calendar, date) \ ExceptionsOn(gtfs, date, "2"))
             \cup ExceptionsOn(gtfs, date, "1")
    ELSE Base(gtfs.calendar, date)

\* The trips the claims take as selected.
Selected(gtfs, date, routes) ==
    {r \in Range(gtfs.trips) :
        /\ r.service_id \in Resolved(gtfs, date)
        /\ (routes = <<>> \/ r.route_id \in Range(routes))}

\* C3: a trip is selected if and only if its service is resolved for the
\* date and the route filter is empty or holds its route; an empty filter
\* filters nothing.
C3_TripsSelected ==
    (call.fn = "get_trips" /\ CanonicalQuery(call.date))
    => /\ ret.kind = "return"
       /\ Range(ret.value) = Selected(call.gtfs, call.date, call.routes)

\* An empty filter over trips of two routes, both running: both selected.
C3_Witness ==
    /\ call.fn = "get_trips"
    /\ call.routes = <<>>
    /\ call.date = D_20230606
    /\ {r.route_id : r \in Range(call.gtfs.trips)} = RouteIds
    /\ ret.kind = "return"
    /\ Len(ret.value) = 2
    /\ {r.route_id : r \in Range(ret.value)} = RouteIds

(***************************************************************************)
(* interstop_time                                                          *)
(***************************************************************************)

\* The order of Python's string comparison on the trip ids of the model.
TripRank(t) == IF t = "T1" THEN 1 ELSE IF t = "T2" THEN 2 ELSE 3

\* The trip_id alone as the sort key: rows of a trip stay in input order.
KeyLess_trip_only(a, b) == TripRank(a.trip_id) < TripRank(b.trip_id)

\* (trip_id, stop_sequence) of a before that of b, stop_sequence as an integer.
KeyLess(a, b) ==
    \/ TripRank(a.trip_id) < TripRank(b.trip_id)
    \/ a.trip_id = b.trip_id /\ a.stop_sequence < b.stop_sequence

RECURSIVE InsertSorted(_, _)
\* row goes after every row that is not greater: rows with equal keys keep
\* the order they came in.
InsertSorted(sorted, row) ==
    IF Len(sorted) = 0 THEN <<row>>
    ELSE IF KeyLess(row, sorted[Len(sorted)])
         THEN Append(InsertSorted(SubSeq(sorted, 1, Len(sorted) - 1), row),
                     sorted[Len(sorted)])
         ELSE Append(sorted, row)

RECURSIVE sort_values(_)
\* sort_values(by=['trip_id','stop_sequence']): with several keys pandas
\* sorts by a stable lexsort.
sort_values(rows) ==
    IF Len(rows) = 0 THEN <<>>
    ELSE InsertSorted(sort_values(SubSeq(rows, 1, Len(rows) - 1)), rows[Len(rows)])

\* A cell of a float64 column: NaN, or a number.
NaN == <<>>

Num(x) == <<x>>

\* groupby('trip_id')[col].shift(): for each row the value of the row before
\* it in its own trip, and NaN for the first row of a trip.
groupby_shift(rows, col) ==
    [i \in 1..Len(rows) |->
        LET before == {k \in 1..(i - 1) : rows[k].trip_id = rows[i].trip_id}
        IN  IF before = {} THEN NaN
            ELSE Num(rows[CHOOSE k \in before : \A j \in before : j <= k][col])]

\* arrival - shifted departure: NaN wherever the shifted value is NaN.
Minus(a, b) == IF b = NaN THEN NaN ELSE Num(a - b[1])

\* stop_times['interstop_time'].fillna(value=0, inplace=True) fills a column
\* taken out of the frame.  Without copy-on-write (pandas before 3) the column
\* is a view and the frame gets the zeros; with copy-on-write the frame keeps
\* its NaN.
fillna_inplace(v, copy_on_write) == IF v = NaN /\ ~copy_on_write THEN Num(0) ELSE v

\* Lines 168-176 of interstop_time, on rows whose stop_sequence is an integer.
interstop_time_sorted(typed, copy_on_write) ==
    LET sorted == sort_values(typed)
        arrival == seconds_after_midnight(Column(sorted, "arrival_time"))
        departure == seconds_after_midnight(Column(sorted, "departure_time"))
    IN  IF arrival.kind = "raise" THEN arrival
        ELSE IF departure.kind = "raise" THEN departure
        ELSE LET timed == [i \in 1..Len(sorted) |->
                              [trip_id |-> sorted[i].trip_id,
                               stop_id |-> sorted[i].stop_id,
                               stop_sequence |-> sorted[i].stop_sequence,
                               arrival_time |-> sorted[i].arrival_time,
                               departure_time |-> sorted[i].departure_time,
                               arrival_seconds |-> arrival.value[i],
                               departure_seconds |-> departure.value[i]]]
                 shifted == groupby_shift(timed, "departure_seconds")
             IN  Return([i \in 1..Len(timed) |->
                           [trip_id |-> timed[i].trip_id,
                            stop_id |-> timed[i].stop_id,
                            stop_sequence |-> timed[i].stop_sequence,
                            arrival_time |-> timed[i].arrival_time,
                            departure_time |-> timed[i].departure_time,
                            arrival_seconds |-> timed[i].arrival_seconds,
                            departure_seconds |-> timed[i].departure_seconds,
                            interstop_time |->
                               fillna_inplace(Minus(timed[i].arrival_seconds, shifted[i]),
                                              copy_on_write)]])

\* astype({'stop_sequence':int}) on a table read as text: a ValueError when a
\* stop_sequence is no integer literal.
astype_stop_sequence(stop_times) ==
    IF \E i \in 1..Len(stop_times) : ~IsIntLiteral(stop_times[i].stop_sequence)
    THEN Raise("ValueError", {})
    ELSE Return([i \in 1..Len(stop_times) |->
                    [stop_times[i] EXCEPT
                        !.stop_sequence = IntOf(stop_times[i].stop_sequence)]])

\* interstop_time(stop_times), under the pandas mode copy_on_write.
interstop_time(stop_times, copy_on_write) ==
    LET typed == astype_stop_sequence(stop_times)
    IN  IF typed.kind = "raise" THEN typed
        ELSE interstop_time_sorted(typed.value, copy_on_write)

T_08_00_00 == <<"0", "8", ":", "0", "0", ":", "0", "0">>
T_08_01_00 == <<"0", "8", ":", "0", "1", ":", "0", "0">>
T_08_06_00 == <<"0", "8", ":", "0", "6", ":", "0", "0">>

Seq_1 == <<"1">>
Seq_9 == <<"9">>
Seq_10 == <<"1", "0">>

\* Rows of stop_times.txt: two trips, stop sequences 1, 9 and 10 as text, and
\* two stops' times (08:00:00 to 08:01:00, 08:06:00 to 25:10:00).
StopTimeRows ==
    {[trip_id |-> t, stop_id |-> "A", stop_sequence |-> q,
      arrival_time |-> p[1], departure_time |-> p[2]] :
        t \in {"T1", "T2"}, q \in {Seq_1, Seq_9, Seq_10},
        p \in {<<T_08_00_00, T_08_01_00>>, <<T_08_06_00, T_25_10_00>>}}

\* Rows of the stop_times table handed to interstop_time.
MaxStopTimes == 3

CallInterstopTime ==
    /\ call = Idle
    /\ \E stop_times \in TablesUpTo(StopTimeRows, MaxStopTimes),
          copy_on_write \in BOOLEAN :
          /\ call' = [fn |-> "interstop_time", stop_times |-> stop_times,
                      copy_on_write |-> copy_on_write]
          /\ ret' = interstop_time(stop_times, copy_on_write)
          /\ UNCHANGED locals

NextInterstop == CallInterstopTime

SpecInterstop == Init /\ [][NextInterstop]_vars

\* The claims' reading of a row: seconds by the places of HH:MM:SS, and the
\* stop sequence as a number.
SecondsOf(s) == 3600 * TwoDigits(s, 1) + 60 * TwoDigits(s, 4) + TwoDigits(s, 7)

SeqOf(r) == DecimalValue(r.stop_sequence)

TripOf(rows, t) == {i \in 1..Len(rows) : rows[i].trip_id = t}

DistinctSequences(rows, t) ==
    \A i, j \in TripOf(rows, t) : SeqOf(rows[i]) = SeqOf(rows[j]) => i = j

\* The output rows that stand for input row r.
OutputOf(out, r) ==
    {k \in 1..Len(out) : /\ out[k].trip_id = r.trip_id
                         /\ out[k].stop_sequence = SeqOf(r)}

\* C5: in a trip of at least two rows with distinct stop sequences, every row
\* but the first in integer order gets its arrival minus the departure of the
\* row just before it in the same trip, whatever the order of the input rows.
C5_ElapsedFromPredecessor ==
    call.fn = "interstop_time"
    => \A t \in {"T1", "T2"} :
          LET rows == call.stop_times
              mine == TripOf(rows, t)
          IN  (Cardinality(mine) >= 2 /\ DistinctSequences(rows, t))
              => /\ ret.kind = "return"
                 /\ \A i \in mine :
                       LET earlier == {j \in mine : SeqOf(rows[j]) < SeqOf(rows[i])}
                       IN  earlier # {}
                           => LET p == CHOOSE j \in earlier :
                                          \A k \in earlier : SeqOf(rows[k]) <= SeqOf(rows[j])
                              IN  /\ Cardinality(OutputOf(ret.value, rows[i])) = 1
                                  /\ \A k \in OutputOf(ret.value, rows[i]) :
                                        ret.value[k].interstop_time =
                                            Num(SecondsOf(rows[i].arrival_time)
                                                - SecondsOf(rows[p].departure_time))

\* Stop 10 of a trip given before its stop 9, with a row of another trip
\* between them: stop 10 is timed from stop 9.
C5_Witness ==
    /\ call.fn = "interstop_time"
    /\ Len(call.stop_times) = 3
    /\ call.stop_times[1].trip_id = "T1" /\ call.stop_times[1].stop_sequence = Seq_10
    /\ call.stop_times[1].arrival_time = T_08_06_00
    /\ call.stop_times[2].trip_id = "T2"
    /\ call.stop_times[3].trip_id = "T1" /\ call.stop_times[3].stop_sequence = Seq_9
    /\ call.stop_times[3].departure_time = T_08_01_00
    /\ ret.kind = "return"
    /\ ret.value[2].stop_sequence = 10
    /\ ret.value[2].interstop_time = Num(300)

\* C6: the first stop of a trip yields no segment: its row carries no elapsed
\* time, not even 0.
C6_FirstStopUndefined ==
    (call.fn = "interstop_time" /\ ret.kind = "return")
    => \A k \in 1..Len(ret.value) :
          (\A j \in 1..Len(ret.value) :
              (j # k /\ ret.value[j].trip_id = ret.value[k].trip_id)
              => ret.value[k].stop_sequence < ret.value[j].stop_sequence)
          => ret.value[k].interstop_time = NaN

\* C9: two rows of one trip with the same integer stop_sequence make the
\* analysis of the trip fail instead of ordering the tied rows silently.
C9_DuplicateSequenceFails ==
    (/\ call.fn = "interstop_time"
     /\ \E t \in {"T1", "T2"} : ~DistinctSequences(call.stop_times, t))
    => ret.kind = "raise"

(***************************************************************************)
(* get_interstop_speed                                                     *)
(***************************************************************************)

\* Series.isin(values): values is iterated as a list, and a DataFrame
\* iterates as its column names, an array as its elements.
isin_values(v) == IF v.frame THEN v.columns ELSE Range(v.rows)

\* What get_trips hands back, as the value isin receives.
TripsFrame(rows) == [frame |-> TRUE, columns |-> TripColumns, rows |-> rows]

\* The frames of get_interstop_speed at a line of its body.
Locals(line, trips, stop_times, stops, shapes) ==
    [line |-> line, trips |-> trips, stop_times |-> stop_times,
     stops |-> stops, shapes |-> shapes]

\* Lines 245-262, every outcome: the frames after the four row filters, or
\* the exception that ends the call before them.  The tables are read and
\* cast first (253 casts stop_sequence to int; gtfs['shapes'] of a feed
\* without shapes is a KeyError at 255), then get_trips checks the date.
\* isin is given the frame get_trips returns, so a row is kept when its
\* trip_id is a column name of trips.  In the feeds of the model stops and
\* shapes have no rows, before and after their filters (260, 262).
get_interstop_speed_filters(gtfs, date, routes) ==
    LET stop_times == astype_stop_sequence(gtfs.stop_times)
    IN  IF stop_times.kind = "raise" THEN {stop_times}
        ELSE IF "shapes" \notin DOMAIN gtfs THEN {Raise("KeyError", {})}
        ELSE {IF trip_ids.kind = "raise" THEN trip_ids
              ELSE LET kept(row) ==
                           row.trip_id \in isin_values(TripsFrame(trip_ids.value))
                   IN  Locals(262, SelectSeq(gtfs.trips, kept),
                              SelectSeq(stop_times.value, kept),
                              gtfs.stops, gtfs.shapes)
              : trip_ids \in get_trips(gtfs, date, routes)}

RECURSIVE merge(_, _)
\* pd.merge(left, right=trips[['trip_id','shape_id']], on='trip_id'): an inner
\* join in the order of the left rows, one row per matching trips row.  The
\* rows that reach it carry one key, so the order among keys is not at stake.
merge(left, trips) ==
    IF Len(left) = 0 THEN <<>>
    ELSE LET row == left[1]
             same_trip(t) == t.trip_id = row.trip_id
             matches == SelectSeq(trips, same_trip)
         IN  [k \in 1..Len(matches) |->
                 [trip_id |-> row.trip_id, stop_id |-> row.stop_id,
                  stop_sequence |-> row.stop_sequence,
                  arrival_time |-> row.arrival_time,
                  departure_time |-> row.departure_time,
                  arrival_seconds |-> row.arrival_seconds,
                  departure_seconds |-> row.departure_seconds,
                  interstop_time |-> row.interstop_time,
                  stop_geometry |-> NaN,
                  shape_id |-> matches[k].shape_id,
                  shape_geometry |-> NaN]]
             \o merge(Tail(left), trips)

\* Lines 264-276 on the frames of line 262, with stops and shapes empty.
\* DataFrame.apply(..., axis=1) on a frame without rows gives an empty column
\* in some pandas releases (empty_apply_reduces) and a copy of the frame in
\* the others, which line 264 cannot assign to one column: a ValueError.
\* Past it the two geometry dictionaries are empty, interstop_time (271)
\* raises a ValueError on a stop_times without rows, the maps of 272 and 276
\* give NaN, and the function ends without a return statement.  The result is
\* the outcome and the frames the call is left with.
get_interstop_speed_rest(frames, copy_on_write, empty_apply_reduces) ==
    IF Len(frames.stops) = 0 /\ ~empty_apply_reduces
    THEN [ret |-> Raise("ValueError", {}), locals |-> [frames EXCEPT !.line = 264]]
    ELSE LET timed == interstop_time_sorted(frames.stop_times, copy_on_write)
         IN  IF timed.kind = "raise"
             THEN [ret |-> timed, locals |-> [frames EXCEPT !.line = 271]]
             ELSE [ret |-> Return("None"),
                   locals |-> [frames EXCEPT
                                  !.line = 276,
                                  !.stop_times = merge(timed.value, frames.trips)]]

\* The trips of the feeds analysed: the id of one reads like a column name.
SpeedTripRows ==
    {[trip_id |-> t, route_id |-> rs[1], service_id |-> rs[2], shape_id |-> "SH1"] :
        t \in {"T1", "trip_id"}, rs \in {<<"R1", "S1">>, <<"R2", "S2">>}}

StopTimeOf(trip, stop_id, stop_sequence, arrival_time, departure_time) ==
    [trip_id |-> trip, stop_id |-> stop_id, stop_sequence |-> stop_sequence,
     arrival_time |-> arrival_time, departure_time |-> departure_time]

\* Their stop_times: two stops of the trip named like a column, one of T1,
\* and one whose stop_sequence is no number.
SpeedStopTimeRows ==
    {StopTimeOf("trip_id", "B", <<"2">>, T_08_06_00, T_08_06_00),
     StopTimeOf("trip_id", "A", <<"1">>, T_08_00_00, T_08_01_00),
     StopTimeOf("T1", "A", <<"1">>, T_08_00_00, T_08_01_00),
     StopTimeOf("T1", "B", <<"x">>, T_08_06_00, T_08_06_00)}

SpeedRouteFilters == {<<>>, <<"R1">>}

\* Rows of stop_times.txt in a feed analysed for speed.
MaxSpeedStopTimes == 2

\* The feeds analysed: stops.txt and shapes.txt, when there, hold a header
\* and no rows.
SpeedFeed(calendar, has_dates, has_shapes, trips, stop_times) ==
    LET core == [calendar |-> calendar, trips |-> trips, stop_times |-> stop_times,
                 stops |-> <<>>]
        dates == IF has_dates THEN [calendar_dates |-> TripExceptions] ELSE <<>>
        shapes == IF has_shapes THEN [shapes |-> <<>>] ELSE <<>>
    IN  core @@ dates @@ shapes

\* get_interstop_speed is called and runs to line 262, or to the exception
\* that ends it before.
CallGetInterstopSpeed ==
    /\ call = Idle
    /\ \E c \in TripCalendars, has_dates \in BOOLEAN, has_shapes \in BOOLEAN :
          \E date \in TripDates, routes \in SpeedRouteFilters,
             trips \in TablesUpTo(SpeedTripRows, MaxTrips),
             stop_times \in TablesUpTo(SpeedStopTimeRows, MaxSpeedStopTimes) :
             LET gtfs == SpeedFeed(c, has_dates, has_shapes, trips, stop_times)
             IN  /\ call' = [fn |-> "get_interstop_speed", gtfs |-> gtfs,
                             date |-> date, routes |-> routes]
                 /\ \E outcome \in get_interstop_speed_filters(gtfs, date, routes) :
                       IF "line" \in DOMAIN outcome
                       THEN ret' = NoRet /\ locals' = outcome
                       ELSE ret' = outcome /\ locals' = NoLocals

\* The call runs from line 264 to its end, under the pandas it runs on; the
\* release decides nothing before line 264, and is recorded with the call here.
FinishGetInterstopSpeed ==
    /\ call.fn = "get_interstop_speed"
    /\ ret = NoRet
    /\ locals.line = 262
    /\ \E copy_on_write \in BOOLEAN, empty_apply_reduces \in BOOLEAN :
          LET end == get_interstop_speed_rest(locals, copy_on_write, empty_apply_reduces)
          IN  /\ call' = [fn |-> call.fn, gtfs |-> call.gtfs, date |-> call.date,
                          routes |-> call.routes, copy_on_write |-> copy_on_write,
                          empty_apply_reduces |-> empty_apply_reduces]
              /\ ret' = end.ret
              /\ locals' = end.locals

NextSpeed == CallGetInterstopSpeed \/ FinishGetInterstopSpeed

SpecSpeed == Init /\ [][NextSpeed]_vars

TripIdsOf(rows) == [i \in 1..Len(rows) |-> rows[i].trip_id]

\* C10: the trips and stop_times rows kept for analysis are exactly those
\* whose trip_id is the trip_id of a trip get_trips selects for the date and
\* the route filter.
C10_SelectedRowsKept ==
    (call.fn = "get_interstop_speed" /\ locals.line = 262)
    => LET ids == {r.trip_id : r \in Selected(call.gtfs, call.date, call.routes)}
           selected(row) == row.trip_id \in ids
       IN  /\ TripIdsOf(locals.trips) = TripIdsOf(SelectSeq(call.gtfs.trips, selected))
           /\ TripIdsOf(locals.stop_times) =
                 TripIdsOf(SelectSeq(call.gtfs.stop_times, selected))

(***************************************************************************)
(* check_tables and load_tables                                            *)
(***************************************************************************)

essential_tables == {"agency", "calendar", "routes", "stop_times", "stops", "trips"}

\* check_tables(gtfs): returns nothing when no essential table is missing,
\* and otherwise raises a ValueError whose message names the missing ones.
check_tables(gtfs) ==
    LET present_tables == DOMAIN gtfs
        missing_tables == essential_tables \ present_tables
    IN  IF missing_tables = {} THEN Return("None")
        ELSE Raise("ValueError", missing_tables)

\* A file name is its pieces and the dots between them; a piece is one word.
FileName(stem) == <<stem, ".", "txt">>

\* file_name.split('.')[0], as text.
file_name_without_extension(file_name) ==
    LET first == Split(file_name, ".")[1]
    IN  IF Len(first) = 0 THEN "" ELSE first[1]

\* load_tables(dataset): one table per file of the archive, under the file's
\* name without its extension (the file stands for its parsed rows).  The
\* error of check_tables is caught and a bare ValueError raised in its place,
\* with no message.
load_tables(file_names) ==
    LET keys == {file_name_without_extension(f) : f \in file_names}
        gtfs == [k \in keys |->
                    CHOOSE f \in file_names : file_name_without_extension(f) = k]
    IN  IF check_tables(gtfs).kind = "raise" THEN Raise("ValueError", {})
        ELSE Return(gtfs)

\* The files an archive may hold: the essential tables, the optional ones,
\* and one that the analysis never reads.
FeedFiles ==
    {FileName(t) : t \in essential_tables
                      \cup {"calendar_dates", "shapes", "frequencies", "feed_info"}}

CallLoadTables ==
    /\ call = Idle
    /\ \E file_names \in SUBSET FeedFiles :
          /\ call' = [fn |-> "load_tables", file_names |-> file_names]
          /\ ret' = load_tables(file_names)
          /\ UNCHANGED locals

\* check_tables called on a loaded dictionary, as the script's main does.
CallCheckTables ==
    /\ call = Idle
    /\ \E file_names \in SUBSET FeedFiles :
          LET gtfs == [k \in {file_name_without_extension(f) : f \in file_names} |->
                          FileName(k)]
          IN  /\ call' = [fn |-> "check_tables", gtfs |-> gtfs]
              /\ ret' = check_tables(gtfs)
              /\ UNCHANGED locals

NextLoad == CallLoadTables \/ CallCheckTables

SpecLoad == Init /\ [][NextLoad]_vars

\* The required tables the archive lacks, read off its file names.
AbsentRequired(file_names) ==
    {t \in {"agency", "calendar", "routes", "stop_times", "stops", "trips"} :
        <<t, ".", "txt">> \notin file_names}

\* C7: load fails if and only if a required table is absent, the error it
\* raises lists exactly the absent required tables, and otherwise it returns
\* the store with every table of the archive.
C7_LoadListsMissing ==
    call.fn = "load_tables"
    => /\ ret.kind = "raise" <=> AbsentRequired(call.file_names) # {}
       /\ ret.kind = "raise" => ret.listed = AbsentRequired(call.file_names)
       /\ ret.kind = "return" =>
             DOMAIN ret.value = {f[1] : f \in call.file_names}

====
